---------------------------- MODULE Spec2Model ----------------------------
(***************************************************************************)
(* gifstream: the GIF89a format writer (src/src/gif.rs) and the timed      *)
(* stream driver (src/src/lib.rs).                                         *)
(*                                                                         *)
(* Byte buffers (Vec<u8>) are sequences of integers in 0..255.  The two    *)
(* external libraries (the NeuQuant quantizer and the weezl LZW encoder)   *)
(* are not part of the repository; NqColorMap, NqIndexOf and LzwCodes      *)
(* stand in for them and no property below rests on their values.          *)
(***************************************************************************)
EXTENDS Integers, Sequences, FiniteSets, TLC

VARIABLES
    \* ---- format writer harness: one call of a GifEncoder function
    buf,        \* the caller-owned output buffer
    buf0,       \* the buffer as it was before the call
    inp,        \* the call to make and its argument
    wpc,        \* "ready" before the call, "done" after it
    \* ---- stream driver
    self,       \* the GifStream value (configuration + generator state)
    mode,       \* the entry point chosen, with its argument
    pc,         \* the position of the try_stream! generator
    polled,     \* a consumer request (poll_next) for the next item is pending
    items,      \* the items delivered to the consumer so far
    ended,      \* the consumer has been given None (end of stream)
    calls,      \* the state clone handed to each producer call, in order
    inflight,   \* producer calls started and not yet resolved
    arg,        \* the producer's own copy of the state during its call
    result,     \* the resolved value of the producer call, not yet taken
    ticksReady, \* ticks of the interval that have fired and were not taken
    awaited,    \* number of ticks the driver has taken
    idleTick,   \* a tick has fired while no request was pending
    panicked    \* where an assertion failed: "no", "config" or "stream"

wvars == <<buf, buf0, inp, wpc>>
svars == <<self, mode, pc, polled, items, ended, calls, inflight, arg, result,
           ticksReady, awaited, idleTick, panicked>>
vars == <<buf, buf0, inp, wpc, self, mode, pc, polled, items, ended, calls,
          inflight, arg, result, ticksReady, awaited, idleTick, panicked>>

(***************************************************************************)
(* Bounds of the model.                                                    *)
(***************************************************************************)
\* longest colour table (in bytes) handed to write_color_table
MaxTableLen == 780
\* longest compressed payload handed to write_encoded_image_block
MaxPayload == 515
\* items the consumer asks for (the header and MaxItems - 1 frames)
MaxItems == 4
\* ticks that may pile up while the driver is not taking them
MaxBurst == 2

(***************************************************************************)
(* Integer helpers: u8/u16 arithmetic as the code performs it.             *)
(***************************************************************************)
Max(a, b) == IF a >= b THEN a ELSE b
Min(a, b) == IF a <= b THEN a ELSE b

RECURSIVE Pow2(_)
Pow2(n) == IF n = 0 THEN 1 ELSE 2 * Pow2(n - 1)

\* a | b on unsigned integers
RECURSIVE BitOr(_, _)
BitOr(a, b) ==
    IF a = 0 THEN b
    ELSE IF b = 0 THEN a
    ELSE Max(a % 2, b % 2) + 2 * BitOr(a \div 2, b \div 2)

\* x as u8, x as u16
AsU8(x) == x % 256
AsU16(x) == x % 65536

\* u16::to_le_bytes
ToLeBytes(x) == <<x % 256, (x \div 256) % 256>>

\* usize::saturating_sub
SaturatingSub(a, b) == IF a >= b THEN a - b ELSE 0

\* the largest element of a byte sequence, 0 when it is empty
RECURSIVE SeqMax(_)
SeqMax(s) == IF s = <<>> THEN 0 ELSE Max(Head(s), SeqMax(Tail(s)))

\* n copies of the black triple
BlackPad(n) == [i \in 1..(3 * n) |-> 0]

\* Option<T>
None == <<>>
Some(v) == <<v>>
UnwrapOr(o, d) == IF o = None THEN d ELSE o[1]

(***************************************************************************)
(* gif.rs: the format writer.  Each operator returns the buffer after the  *)
(* call.                                                                   *)
(***************************************************************************)
GIF89a == <<71, 73, 70, 56, 57, 97>>
NETSCAPE20 == <<78, 69, 84, 83, 67, 65, 80, 69, 50, 46, 48>>

\* Color table size converted to flag bits
flag_size(size) ==
    IF size <= 2 THEN 0
    ELSE IF size <= 4 THEN 1
    ELSE IF size <= 8 THEN 2
    ELSE IF size <= 16 THEN 3
    ELSE IF size <= 32 THEN 4
    ELSE IF size <= 64 THEN 5
    ELSE IF size <= 128 THEN 6
    ELSE IF size <= 256 THEN 7
    ELSE 7

write_screen_desc(b, width, height, flags) ==
    b \o GIF89a \o ToLeBytes(width) \o ToLeBytes(height)
      \o <<UnwrapOr(flags, 0), 0, 0>>

global_palette_flags(palette) ==
    LET num_colors == Len(palette) \div 3
        f1 == BitOr(0, 128)
        f2 == BitOr(f1, flag_size(num_colors))
    IN  BitOr(f2, AsU8(flag_size(num_colors) * 16))

write_color_table(b, table) ==
    LET num_colors == Len(table) \div 3
        size == flag_size(num_colors)
        pad == SaturatingSub(2 * Pow2(size), num_colors)
    IN  b \o SubSeq(table, 1, num_colors * 3) \o BlackPad(pad)

\* faulty variant of write_extension: Repetitions(0) is written like any other
write_extension_no_skip(b, extension) ==
    b \o <<33>>
      \o (CASE extension.type = "Control" ->
                 <<249, 4, extension.flags>> \o ToLeBytes(extension.delay)
                     \o <<extension.transparency_idx>>
            [] extension.type = "InfiniteRepetitions" ->
                 <<255, 11>> \o NETSCAPE20 \o <<3, 1>> \o ToLeBytes(0)
            [] extension.type = "Repetitions" ->
                 <<255, 11>> \o NETSCAPE20 \o <<3, 1>>
                     \o ToLeBytes(extension.repeat))
      \o <<0>>

write_extension(b, extension) ==
    IF extension.type = "Repetitions" /\ extension.repeat = 0
    THEN b
    ELSE b \o <<33>>
           \o (CASE extension.type = "Control" ->
                      <<249, 4, extension.flags>> \o ToLeBytes(extension.delay)
                          \o <<extension.transparency_idx>>
                 [] extension.type = "InfiniteRepetitions" ->
                      <<255, 11>> \o NETSCAPE20 \o <<3, 1>> \o ToLeBytes(0)
                 [] extension.type = "Repetitions" ->
                      <<255, 11>> \o NETSCAPE20 \o <<3, 1>>
                          \o ToLeBytes(extension.repeat))
           \o <<0>>

write_repeat(b, repeat) ==
    write_extension(b, [type |-> "Repetitions", repeat |-> repeat])

write_loop(b) ==
    write_extension(b, [type |-> "InfiniteRepetitions"])

write_frame_header(b, frame, delay, interlaced, dispose) ==
    LET t == UnwrapOr(frame.transparent, 0)
        b1 == write_extension(b, [type |-> "Control",
                                  flags |-> BitOr(dispose, 8),
                                  delay |-> delay,
                                  transparency_idx |-> t])
        b2 == b1 \o <<44>> \o ToLeBytes(0) \o ToLeBytes(0)
                 \o ToLeBytes(frame.width) \o ToLeBytes(frame.height)
        f1 == IF interlaced THEN BitOr(0, 64) ELSE 0
    IN  IF frame.palette # None
        THEN LET palette == frame.palette[1]
                 f2 == BitOr(BitOr(f1, 128), flag_size(Len(palette) \div 3))
             IN  write_color_table(b2 \o <<f2>>, palette)
        ELSE b2 \o <<f1>>

\* faulty variant of SubBlocks: the remainder is written even when it is empty
RECURSIVE SubBlocksEmptyRem(_)
SubBlocksEmptyRem(data) ==
    IF Len(data) >= 255
    THEN <<255>> \o SubSeq(data, 1, 255)
                 \o SubBlocksEmptyRem(SubSeq(data, 256, Len(data)))
    ELSE <<AsU8(Len(data))>> \o data

\* the sub-blocks of write_encoded_image_block: the full 0xFF chunks of
\* chunks_exact(0xFF), then the remainder if it is not empty
RECURSIVE SubBlocks(_)
SubBlocks(data) ==
    IF Len(data) >= 255
    THEN <<255>> \o SubSeq(data, 1, 255)
                 \o SubBlocks(SubSeq(data, 256, Len(data)))
    ELSE IF data # <<>> THEN <<AsU8(Len(data))>> \o data
    ELSE <<>>

write_encoded_image_block(b, data) ==
    LET min_code_size == IF data = <<>> THEN 2 ELSE Head(data)
        rest == IF data = <<>> THEN <<>> ELSE Tail(data)
    IN  b \o <<min_code_size>> \o SubBlocks(rest) \o <<0>>

write_trailer(b) == b \o <<59>>

\* stand-in for weezl's LZW code stream of `data` (external library)
LzwCodes(min_code_size, data) ==
    <<Pow2(min_code_size) % 256>> \o data \o <<(Pow2(min_code_size) + 1) % 256>>

lzw_encode(b, data) ==
    LET n == flag_size(1 + SeqMax(data)) + 1
        min_code_size == IF n = 1 THEN 2 ELSE n
    IN  b \o <<min_code_size>> \o LzwCodes(min_code_size, data)

write_image_block(b, data) ==
    write_encoded_image_block(b, lzw_encode(<<>>, data))

write_frame(b, frame, delay, interlaced, dispose) ==
    write_image_block(write_frame_header(b, frame, delay, interlaced, dispose),
                      frame.buffer)



(***************************************************************************)
(* gif.rs: the frame model.  A frame is                                    *)
(* [width, height, transparent: Option<u8>, palette: Option<Vec<u8>>,      *)
(*  buffer].  RGBA data is a sequence of bytes, four per pixel.            *)
(***************************************************************************)
\* stand-ins for NeuQuant (external library): the colour map of a quantizer
\* built for `colors` colours, and the index it gives a pixel
NqColorMap(colors) == [i \in 1..(3 * colors) |-> (i * 5) % 256]
NqIndexOf(colors, pix) == (pix[1] + pix[2] + pix[3]) % colors

\* data.chunks_exact(4)
Pixels(data) ==
    [k \in 1..(Len(data) \div 4) |-> SubSeq(data, 4 * k - 3, 4 * k)]

\* the last pixel with alpha 0, if any
RECURSIVE LastTransparent(_)
LastTransparent(pixels) ==
    IF pixels = <<>> THEN None
    ELSE IF pixels[Len(pixels)][4] = 0 THEN Some(pixels[Len(pixels)])
    ELSE LastTransparent(SubSeq(pixels, 1, Len(pixels) - 1))

NQ_COLORS == 256

from_rgba(w, h, data, speed) ==
    LET transparent == LastTransparent(Pixels(data))
    IN  [width |-> w, height |-> h,
         transparent |-> IF transparent = None THEN None
                         ELSE Some(AsU8(NqIndexOf(NQ_COLORS, transparent[1]))),
         palette |-> Some(NqColorMap(NQ_COLORS)),
         buffer |-> [k \in 1..Len(Pixels(data)) |->
                        AsU8(NqIndexOf(NQ_COLORS, Pixels(data)[k]))]]

\* gp is a GlobalPalette: [colors, palette]
with_global_palette_rgba(w, h, data, gp) ==
    LET transparent == LastTransparent(Pixels(data))
    IN  [width |-> w, height |-> h,
         transparent |-> IF transparent = None THEN None
                         ELSE Some(AsU8(NqIndexOf(gp.colors, transparent[1]))),
         palette |-> None,
         buffer |-> [k \in 1..Len(Pixels(data)) |->
                        AsU8(NqIndexOf(gp.colors, Pixels(data)[k]))]]

from_palatte_rgba(w, h, data, palette) ==
    [width |-> w, height |-> h, transparent |-> None,
     palette |-> Some(palette), buffer |-> data]

\* GlobalPalette::new: the assertion, and the value when it passes
GlobalPaletteAssert(colors) == colors > 0 /\ colors <= 256
GlobalPaletteNew(speed, colors, data) ==
    [colors |-> colors, palette |-> NqColorMap(colors)]

(***************************************************************************)
(* Harness of the format writer: one call on a buffer, the call and its    *)
(* argument drawn from the inputs below.                                   *)
(***************************************************************************)
\* u16::MAX, the largest repeat count
U16_MAX == 65535
\* DisposalMethod::Keep as u8
DISPOSE_KEEP == 1

TableOfLen(n) == [i \in 1..n |-> 1 + ((i * 7) % 255)]
PayloadOfLen(n, seed) == [i \in 1..n |-> ((i * 3) + seed) % 256]

BufInputs == {<<>>, <<59, 0>>}
WriterInputs ==
    {[op |-> "color_table", table |-> TableOfLen(n)] : n \in 0..MaxTableLen}
    \cup {[op |-> "frame_header", palette |-> TableOfLen(n)] :
             n \in {0, 6, 7, 768, MaxTableLen}}
    \cup {[op |-> "repeat", repeat |-> r] : r \in 0..U16_MAX}
    \cup {[op |-> "loop"]}
    \cup {[op |-> "encoded", data |-> <<>>]}
    \cup {[op |-> "encoded", data |-> <<8>> \o PayloadOfLen(n, 0)] :
             n \in 0..MaxPayload}

StreamIdle ==
    /\ self = [interval_ms |-> 0] /\ mode = [entry |-> "none"]
    /\ pc = "idle" /\ polled = FALSE /\ items = <<>> /\ ended = FALSE
    /\ calls = <<>> /\ inflight = 0 /\ arg = None /\ result = None
    /\ ticksReady = 0 /\ awaited = 0 /\ idleTick = FALSE /\ panicked = "no"

WriterInit ==
    /\ buf0 \in BufInputs
    /\ buf = buf0
    /\ inp \in WriterInputs
    /\ wpc = "ready"
    /\ StreamIdle

CallColorTable ==
    /\ wpc = "ready" /\ inp.op = "color_table"
    /\ buf' = write_color_table(buf, inp.table)
    /\ wpc' = "done"
    /\ UNCHANGED <<buf0, inp, svars>>

\* the header of a frame built by Frame::from_palatte_rgba, which takes
\* the palette as it is given
CallFrameHeader ==
    /\ wpc = "ready" /\ inp.op = "frame_header"
    /\ \E frame \in {from_palatte_rgba(2, 2, <<0, 0, 0, 0>>, inp.palette)} :
           buf' = write_frame_header(buf, frame, 10, FALSE, DISPOSE_KEEP)
    /\ wpc' = "done"
    /\ UNCHANGED <<buf0, inp, svars>>

CallRepeat ==
    /\ wpc = "ready" /\ inp.op = "repeat"
    /\ buf' = write_repeat(buf, inp.repeat)
    /\ wpc' = "done"
    /\ UNCHANGED <<buf0, inp, svars>>

CallLoop ==
    /\ wpc = "ready" /\ inp.op = "loop"
    /\ buf' = write_loop(buf)
    /\ wpc' = "done"
    /\ UNCHANGED <<buf0, inp, svars>>

CallEncodedImageBlock ==
    /\ wpc = "ready" /\ inp.op = "encoded"
    /\ buf' = write_encoded_image_block(buf, inp.data)
    /\ wpc' = "done"
    /\ UNCHANGED <<buf0, inp, svars>>

WriterNext ==
    \/ CallColorTable
    \/ CallFrameHeader
    \/ CallRepeat
    \/ CallLoop
    \/ CallEncodedImageBlock

WriterSpec == WriterInit /\ [][WriterNext]_vars

\* what the call appended to the buffer
Appended == SubSeq(buf, Len(buf0) + 1, Len(buf))
Done(op) == wpc = "done" /\ inp.op = op /\ SubSeq(buf, 1, Len(buf0)) = buf0

(***************************************************************************)
(* Claims about the format writer (checked under WriterSpec).              *)
(***************************************************************************)
\* the size class of a colour count as the documentation lists it:
\* 0..=2 -> 0, 3..=4 -> 1, 5..=8 -> 2, ..., 129..=256 -> 7
SizeClass(n) ==
    CHOOSE c \in 0..7 :
        /\ (n <= 2 * Pow2(c) \/ c = 7)
        /\ \A d \in 0..(c - 1) : n > 2 * Pow2(d)

\* C6 (as stated): write_color_table always appends exactly
\* 3 * 2^(class+1) bytes, class being the size class of floor(len/3),
\* whatever the byte length of the table; the appended bytes are the
\* table's colours followed only by (0,0,0) padding.
C6_ColorTableLength ==
    /\ Done("color_table") =>
        LET n == Len(inp.table) \div 3
            want == 3 * 2 * Pow2(SizeClass(n))
        IN  /\ Len(Appended) = want
            /\ SubSeq(Appended, 1, Min(3 * n, want))
                   = SubSeq(inp.table, 1, Min(3 * n, want))
            /\ \A i \in (3 * n + 1)..Len(Appended) : Appended[i] = 0
    /\ Done("frame_header") =>
           LET n == Len(inp.palette) \div 3
           IN  /\ Len(Appended) = 18 + 3 * 2 * Pow2(SizeClass(n))
               /\ Appended[18] = 128 + SizeClass(n)

\* the 19-byte NETSCAPE2.0 application extension with repeat field r
NetscapeBlock(r) ==
    <<33, 255, 11>> \o NETSCAPE20 \o <<3, 1, r % 256, r \div 256, 0>>

\* C7: write_extension(Repetitions(r)) leaves the buffer unchanged when
\* r = 0 and otherwise appends exactly the 19 bytes
\* 0x21 0xFF 11 "NETSCAPE2.0" 3 1 <r as little-endian u16> 0x00;
\* write_extension(InfiniteRepetitions) appends that block with repeat 0.
C7_RepeatExtension ==
    /\ (wpc = "done" /\ inp.op = "repeat" /\ inp.repeat = 0) => buf = buf0
    /\ (wpc = "done" /\ inp.op = "repeat" /\ inp.repeat # 0) =>
           /\ buf = buf0 \o NetscapeBlock(inp.repeat)
           /\ Len(Appended) = 19
           /\ Appended[17] + 256 * Appended[18] = inp.repeat
    /\ (wpc = "done" /\ inp.op = "loop") =>
           /\ buf = buf0 \o NetscapeBlock(0)
           /\ Len(Appended) = 19

\* C7 witness: Repetitions(0) was written on a non-empty buffer
C7_Witness ==
    wpc = "done" /\ inp.op = "repeat" /\ inp.repeat = 0 /\ buf0 # <<>>

\* reads length-prefixed sub-blocks from s up to the first zero length:
\* the prefixes read, the payloads concatenated, what follows the
\* terminator, and whether a terminator was found in bounds
RECURSIVE ReadSubBlocks(_)
ReadSubBlocks(s) ==
    IF s = <<>>
    THEN [lens |-> <<>>, payload |-> <<>>, rest |-> <<>>, ok |-> FALSE]
    ELSE IF Head(s) = 0
    THEN [lens |-> <<>>, payload |-> <<>>, rest |-> Tail(s), ok |-> TRUE]
    ELSE IF Len(s) < 1 + Head(s)
    THEN [lens |-> <<Head(s)>>, payload |-> Tail(s), rest |-> <<>>,
          ok |-> FALSE]
    ELSE LET r == ReadSubBlocks(SubSeq(s, 2 + Head(s), Len(s)))
         IN  [lens |-> <<Head(s)>> \o r.lens,
              payload |-> SubSeq(s, 2, 1 + Head(s)) \o r.payload,
              rest |-> r.rest, ok |-> r.ok]

CeilDiv(a, b) == (a + b - 1) \div b

\* C8: for a minimum-code-size byte followed by a payload of length L,
\* write_encoded_image_block appends that byte, then exactly ceil(L/255)
\* sub-blocks each prefixed by its length in 1..255, then one terminating
\* 0 byte; the sub-block payloads concatenated are the payload, and no
\* zero-length sub-block other than the terminator is written.
C8_SubBlockChunking ==
    (Done("encoded") /\ inp.data # <<>>) =>
        LET L == Len(inp.data) - 1
            r == ReadSubBlocks(Tail(Appended))
        IN  /\ Appended[1] = inp.data[1]
            /\ r.ok /\ r.rest = <<>>
            /\ Len(r.lens) = CeilDiv(L, 255)
            /\ \A i \in 1..Len(r.lens) : r.lens[i] \in 1..255
            /\ r.payload = Tail(inp.data)
            /\ Len(Appended) = 1 + L + CeilDiv(L, 255) + 1

\* C8 witness: a payload that is two full sub-blocks exactly
C8_Witness ==
    Done("encoded") /\ Len(inp.data) = 1 + 2 * 255

(***************************************************************************)
(* lib.rs: the stream configuration (GifStream::new and the setters).      *)
(***************************************************************************)
MIN_DELAY == 10
MAX_DELAY == 65535

\* faulty variant of frame_delay_of: the 10 ms floor and the ceiling are dropped
frame_delay_unclamped(interval_ms) == AsU16(interval_ms \div 10)

\* the frame delay GifStream::new derives from interval.as_millis()
frame_delay_of(interval_ms) ==
    LET delay == Max(interval_ms, MIN_DELAY)
    IN  AsU16(Min(delay \div 10, MAX_DELAY))

\* the speed GifStream::new sets
DEFAULT_SPEED == 10

GifStreamNew(interval_ms, width, height, state) ==
    [interval_ms |-> interval_ms,
     frame_delay |-> frame_delay_of(interval_ms),
     width |-> width, height |-> height,
     state |-> state,
     speed |-> DEFAULT_SPEED, interlaced |-> FALSE, dispose |-> DISPOSE_KEEP]

SpeedAssert(speed) == speed > 0 /\ speed <= 30

\* the inputs of the configuration
\* interval.as_millis(): below, at and above the 10 ms floor and the
\* 65535 * 10 ms ceiling (0 is a sub-millisecond interval)
IntervalInputs ==
    {0, 5, 10, 19, 100, 655350, 655359, 655360, 10000000}
WidthInputs == {300}
HeightInputs == {2}
StateInputs == {0, 1}
SpeedInputs == {0, 10, 31}
DisposeInputs == {0, 3}
ColorInputs == {0, 2, 5, 257}
\* what a producer call may resolve to: RGBA data, or an error value
DataInputs == {<<7, 7, 7, 0, 255, 0, 0, 255>>}
ErrInputs == {1, 2}

WriterIdle ==
    buf = <<>> /\ buf0 = <<>> /\ inp = [op |-> "none"] /\ wpc = "idle"

Init ==
    /\ WriterIdle
    /\ \E ms \in IntervalInputs, w \in WidthInputs, h \in HeightInputs :
           self = GifStreamNew(ms, w, h, 0)
    /\ mode = [entry |-> "none", gp |-> None, n_colors |-> 0]
    /\ pc = "config"
    /\ polled = FALSE /\ items = <<>> /\ ended = FALSE
    /\ calls = <<>> /\ inflight = 0 /\ arg = None /\ result = None
    /\ ticksReady = 0 /\ awaited = 0 /\ idleTick = FALSE /\ panicked = "no"

\* everything of the stream but the configuration
run == <<polled, items, ended, calls, inflight, arg, result, ticksReady,
         awaited, idleTick>>

SetState ==
    /\ pc = "config"
    /\ \E s \in StateInputs : self' = [self EXCEPT !.state = s]
    /\ UNCHANGED <<wvars, mode, pc, run, panicked>>

SetInterlaced ==
    /\ pc = "config"
    /\ \E b \in BOOLEAN : self' = [self EXCEPT !.interlaced = b]
    /\ UNCHANGED <<wvars, mode, pc, run, panicked>>

SetDispose ==
    /\ pc = "config"
    /\ \E d \in DisposeInputs : self' = [self EXCEPT !.dispose = d]
    /\ UNCHANGED <<wvars, mode, pc, run, panicked>>

SetSpeed ==
    /\ pc = "config"
    /\ \E s \in SpeedInputs :
           IF SpeedAssert(s)
           THEN self' = [self EXCEPT !.speed = s]
                /\ UNCHANGED <<pc, panicked>>
           ELSE pc' = "aborted" /\ panicked' = "config" /\ UNCHANGED self
    /\ UNCHANGED <<wvars, mode, run>>

\* the caller builds the palette it will hand to stream_with_palette
NewGlobalPalette ==
    /\ pc = "config" /\ mode.gp = None
    /\ \E colors \in ColorInputs, data \in DataInputs :
           IF GlobalPaletteAssert(colors)
           THEN mode' = [mode EXCEPT
                           !.gp = Some(GlobalPaletteNew(self.speed, colors, data))]
                /\ UNCHANGED <<pc, panicked>>
           ELSE pc' = "aborted" /\ panicked' = "config" /\ UNCHANGED mode
    /\ UNCHANGED <<wvars, self, run>>

\* the entry points: each returns a stream that runs nothing until polled
Stream ==
    /\ pc = "config" /\ mode.gp = None
    /\ mode' = [mode EXCEPT !.entry = "stream"]
    /\ pc' = "start"
    /\ UNCHANGED <<wvars, self, run, panicked>>

StreamWithPalette ==
    /\ pc = "config" /\ mode.gp # None
    /\ mode' = [mode EXCEPT !.entry = "stream_with_palette"]
    /\ pc' = "start"
    /\ UNCHANGED <<wvars, self, run, panicked>>

StreamAutoPalette ==
    /\ pc = "config" /\ mode.gp = None
    /\ \E n \in ColorInputs :
           mode' = [mode EXCEPT !.entry = "stream_auto_palette", !.n_colors = n]
    /\ pc' = "start"
    /\ UNCHANGED <<wvars, self, run, panicked>>

(***************************************************************************)
(* lib.rs: the stream driver.  The body of try_stream! runs only inside    *)
(* the consumer's poll of the stream; it suspends at `yield`, at           *)
(* `interval.tick().await` and at the producer call's `.await`.            *)
(*   pc: "start"          not polled yet                                   *)
(*       "await_sample"   stream_auto_palette's upfront producer call      *)
(*       "yielded_header" suspended at the first `yield buf`               *)
(*       "await_tick"     at interval.tick().await                         *)
(*       "await_frame"    at (self.generator)(..).await                    *)
(*       "finished"       the generator returned (after an error)          *)
(*       "panicked"       an assertion failed inside the generator         *)
(***************************************************************************)
Ok(v) == [ok |-> TRUE, val |-> v]
Err(e) == [ok |-> FALSE, val |-> e]

\* faulty variant of DriverRuns: the body runs as a free task, polled or not
DriverRunsEager == panicked = "no"

\* the generator body makes progress only while the stream is being polled
DriverRuns == polled /\ panicked = "no"

\* faulty variant of StateAfterCall: the producer is handed the state itself
StateAfterCallShared(state, copy) == copy

\* the stream's state after a producer call that left its clone as `copy`
StateAfterCall(state, copy) == state

\* (self.generator)(self.state.clone()): the call starts
CallProducer ==
    /\ calls' = Append(calls, self.state)
    /\ arg' = Some(self.state)
    /\ inflight' = inflight + 1

\* the header chunk: screen descriptor and global colour table
HeaderChunk(table) ==
    LET flags == global_palette_flags(table)
        b1 == write_screen_desc(<<>>, self.width, self.height, Some(flags))
    IN  write_color_table(b1, table)

\* Frame::from_rgba or Frame::with_global_palette_rgba, by entry point
ConvertFrame(data) ==
    IF mode.entry = "stream"
    THEN from_rgba(self.width, self.height, data, self.speed)
    ELSE with_global_palette_rgba(self.width, self.height, data, mode.gp[1])

\* faulty variant of FrameChunk: the screen descriptor is written again per frame
FrameChunkWithHeader(frame) ==
    write_frame(write_screen_desc(<<>>, self.width, self.height, None),
                frame, self.frame_delay, self.interlaced, self.dispose)

\* a frame chunk: GifEncoder::write_frame on a fresh buffer
FrameChunk(frame) ==
    write_frame(<<>>, frame, self.frame_delay, self.interlaced, self.dispose)

\* `yield buf`: the item answers the pending request
Yield(item) ==
    /\ items' = Append(items, item)
    /\ polled' = FALSE

\* faulty variant of FailWith: the error is yielded and the loop goes on
FailAndContinue(e) ==
    /\ Yield(Err(e))
    /\ pc' = "await_tick"

\* `?` inside try_stream!: the error is yielded and the generator returns
FailWith(e) ==
    /\ Yield(Err(e))
    /\ pc' = "finished"

\* ---- the consumer
Request ==
    /\ pc \notin {"idle", "config", "aborted"}
    /\ ~polled /\ ~ended /\ panicked = "no"
    /\ Len(items) < MaxItems \/ pc = "finished"
    /\ polled' = TRUE
    /\ UNCHANGED <<wvars, self, mode, pc, items, ended, calls, inflight, arg,
                   result, ticksReady, awaited, idleTick, panicked>>

\* ---- the producer (the injected generator's future)
ProducerMutates ==
    /\ inflight > 0 /\ arg # None /\ arg[1] = calls[Len(calls)]
    /\ arg' = Some(arg[1] + 2)
    /\ UNCHANGED <<wvars, self, mode, pc, polled, items, ended, calls,
                   inflight, result, ticksReady, awaited, idleTick, panicked>>

ProducerOk ==
    /\ inflight > 0 /\ result = None
    /\ \E data \in DataInputs : result' = Some(Ok(data))
    /\ inflight' = inflight - 1
    /\ self' = [self EXCEPT !.state = StateAfterCall(self.state, arg[1])]
    /\ arg' = None
    /\ UNCHANGED <<wvars, mode, pc, polled, items, ended, calls, ticksReady,
                   awaited, idleTick, panicked>>

ProducerErr ==
    /\ inflight > 0 /\ result = None
    /\ \E e \in ErrInputs : result' = Some(Err(e))
    /\ inflight' = inflight - 1
    /\ self' = [self EXCEPT !.state = StateAfterCall(self.state, arg[1])]
    /\ arg' = None
    /\ UNCHANGED <<wvars, mode, pc, polled, items, ended, calls, ticksReady,
                   awaited, idleTick, panicked>>

\* ---- the clock (tokio's interval; ticks that are not taken pile up)
Tick ==
    /\ pc \in {"await_tick", "await_frame"}
    /\ ticksReady < MaxBurst
    /\ ticksReady' = ticksReady + 1
    /\ idleTick' = (idleTick \/ ~polled)
    /\ UNCHANGED <<wvars, self, mode, pc, polled, items, ended, calls,
                   inflight, arg, result, awaited, panicked>>

\* ---- the generator body
\* stream, stream_with_palette: the header is built and yielded
BeginHeader ==
    /\ pc = "start" /\ DriverRuns
    /\ mode.entry \in {"stream", "stream_with_palette"}
    /\ Yield(Ok(HeaderChunk(IF mode.entry = "stream" THEN <<>>
                            ELSE mode.gp[1].palette)))
    /\ pc' = "yielded_header"
    /\ UNCHANGED <<wvars, self, mode, ended, calls, inflight, arg, result,
                   ticksReady, awaited, idleTick, panicked>>

\* stream_auto_palette: the upfront producer call
BeginSample ==
    /\ pc = "start" /\ DriverRuns
    /\ mode.entry = "stream_auto_palette"
    /\ CallProducer
    /\ pc' = "await_sample"
    /\ UNCHANGED <<wvars, self, mode, polled, items, ended, result,
                   ticksReady, awaited, idleTick, panicked>>

SampleErr ==
    /\ pc = "await_sample" /\ DriverRuns
    /\ result # None /\ ~result[1].ok
    /\ FailWith(result[1].val)
    /\ result' = None
    /\ UNCHANGED <<wvars, self, mode, ended, calls, inflight, arg,
                   ticksReady, awaited, idleTick, panicked>>

\* GlobalPalette::new's assertion fails inside the generator
SamplePanic ==
    /\ pc = "await_sample" /\ DriverRuns
    /\ result # None /\ result[1].ok
    /\ ~GlobalPaletteAssert(mode.n_colors)
    /\ pc' = "panicked" /\ panicked' = "stream"
    /\ result' = None
    /\ UNCHANGED <<wvars, self, mode, polled, items, ended, calls, inflight,
                   arg, ticksReady, awaited, idleTick>>

SampleHeader ==
    /\ pc = "await_sample" /\ DriverRuns
    /\ result # None /\ result[1].ok
    /\ GlobalPaletteAssert(mode.n_colors)
    /\ LET gp == GlobalPaletteNew(self.speed, mode.n_colors, result[1].val)
       IN  /\ mode' = [mode EXCEPT !.gp = Some(gp)]
           /\ Yield(Ok(HeaderChunk(gp.palette)))
    /\ pc' = "yielded_header"
    /\ result' = None
    /\ UNCHANGED <<wvars, self, ended, calls, inflight, arg, ticksReady,
                   awaited, idleTick, panicked>>

\* tokio::time::interval(self.interval): its first tick is ready at once
MakeInterval ==
    /\ pc = "yielded_header" /\ DriverRuns
    /\ ticksReady' = 1
    /\ pc' = "await_tick"
    /\ UNCHANGED <<wvars, self, mode, polled, items, ended, calls, inflight,
                   arg, result, awaited, idleTick, panicked>>

\* interval.tick().await completes and the producer is called
TickCall ==
    /\ pc = "await_tick" /\ DriverRuns
    /\ ticksReady > 0
    /\ ticksReady' = ticksReady - 1
    /\ awaited' = awaited + 1
    /\ CallProducer
    /\ pc' = "await_frame"
    /\ UNCHANGED <<wvars, self, mode, polled, items, ended, result, idleTick,
                   panicked>>

FrameErr ==
    /\ pc = "await_frame" /\ DriverRuns
    /\ result # None /\ ~result[1].ok
    /\ FailWith(result[1].val)
    /\ result' = None
    /\ UNCHANGED <<wvars, self, mode, ended, calls, inflight, arg,
                   ticksReady, awaited, idleTick, panicked>>

FrameOk ==
    /\ pc = "await_frame" /\ DriverRuns
    /\ result # None /\ result[1].ok
    /\ \E frame \in {ConvertFrame(result[1].val)} :
           Yield(Ok(FrameChunk(frame)))
    /\ pc' = "await_tick"
    /\ result' = None
    /\ UNCHANGED <<wvars, self, mode, ended, calls, inflight, arg,
                   ticksReady, awaited, idleTick, panicked>>

\* polled after the generator returned: the stream yields None
EndOfStream ==
    /\ pc = "finished" /\ polled
    /\ ended' = TRUE
    /\ polled' = FALSE
    /\ UNCHANGED <<wvars, self, mode, pc, items, calls, inflight, arg, result,
                   ticksReady, awaited, idleTick, panicked>>

Next ==
    \/ SetState
    \/ SetInterlaced
    \/ SetDispose
    \/ SetSpeed
    \/ NewGlobalPalette
    \/ Stream
    \/ StreamWithPalette
    \/ StreamAutoPalette
    \/ Request
    \/ ProducerMutates
    \/ ProducerOk
    \/ ProducerErr
    \/ Tick
    \/ BeginHeader
    \/ BeginSample
    \/ SampleErr
    \/ SamplePanic
    \/ SampleHeader
    \/ MakeInterval
    \/ TickCall
    \/ FrameErr
    \/ FrameOk
    \/ EndOfStream

Spec == Init /\ [][Next]_vars

(***************************************************************************)
(* The stream with the fairness its scheduling gives: a consumer that      *)
(* keeps requesting, a clock that keeps ticking, producer calls that       *)
(* resolve, and a generator body that runs whenever it is polled and can   *)
(* take a step.                                                            *)
(***************************************************************************)
Driver ==
    \/ BeginHeader \/ BeginSample \/ SampleErr \/ SamplePanic \/ SampleHeader
    \/ MakeInterval \/ TickCall \/ FrameErr \/ FrameOk \/ EndOfStream

LiveSpec ==
    /\ Init /\ [][Next]_vars
    /\ WF_vars(Request)
    /\ WF_vars(Tick)
    /\ WF_vars(ProducerOk \/ ProducerErr)
    /\ WF_vars(Driver)

(***************************************************************************)
(* Reading a chunk back.                                                   *)
(***************************************************************************)
\* "GIF89a" first: the chunk holds the screen descriptor
IsHeaderChunk(b) == Len(b) >= 13 /\ SubSeq(b, 1, 6) = GIF89a
\* a graphic control extension followed by an image descriptor
IsFrameChunk(b) ==
    Len(b) >= 19 /\ b[1] = 33 /\ b[2] = 249 /\ b[3] = 4 /\ b[8] = 0
                 /\ b[9] = 44
Le16(b, i) == b[i] + 256 * b[i + 1]
HasErr(seq) == \E i \in 1..Len(seq) : ~seq[i].ok

(***************************************************************************)
(* Claims about the stream driver.                                         *)
(***************************************************************************)
\* C1: when a producer call resolves to an error, that error value is the
\* next item of the output and its last: no chunk is yielded for the
\* failing tick, and after the error no tick is awaited, no producer call
\* is made and no item is yielded.
C1_ErrorIsTerminal ==
    [][/\ (result # None /\ ~result[1].ok) =>
              /\ items' \in {items, Append(items, Err(result[1].val))}
              /\ calls' = calls /\ awaited' = awaited
       /\ HasErr(items) =>
              /\ items' = items /\ calls' = calls /\ awaited' = awaited
              /\ inflight' = 0 /\ pc' = "finished"
       /\ \A i \in 1..Len(items') : ~items'[i].ok => i = Len(items')]_vars

\* C1 witness: a header, a frame, then the producer's error 2 and the end
\* of the stream, with a tick that fired left untaken
C1_Witness ==
    /\ ended /\ Len(items) = 3 /\ items[2].ok
    /\ items[3] = Err(2) /\ ticksReady > 0 /\ awaited = 2

\* C2 (as stated): in every run the first item is the header chunk, also
\* in auto-palette mode; the header is yielded once and every later
\* non-error item is a frame chunk.
C2_FirstItemIsHeader ==
    /\ items # <<>> => (items[1].ok /\ IsHeaderChunk(items[1].val))
    /\ \A i \in 2..Len(items) :
           items[i].ok => (IsFrameChunk(items[i].val)
                           /\ ~IsHeaderChunk(items[i].val))

\* the chunk is exactly "GIF89a", the screen descriptor of this stream
\* with the global-table flag, and a colour table of the size it declares
IsExactHeader(b) ==
    /\ IsHeaderChunk(b)
    /\ Le16(b, 7) = self.width /\ Le16(b, 9) = self.height
    /\ b[11] >= 128 /\ b[12] = 0 /\ b[13] = 0
    /\ (b[11] % 8) = ((b[11] \div 16) % 8)
    /\ Len(b) = 13 + 3 * 2 * Pow2(b[11] % 8)

\* C2 (amended): the first item is the header chunk unless the upfront
\* producer call of stream_auto_palette failed, in which case that error
\* is the first and only item; the header is yielded at most once, in
\* auto-palette mode after exactly one producer call, and every later
\* non-error item is a frame chunk.
C2_HeaderFirstUnlessSampleFails ==
    /\ items # <<>> =>
           \/ items[1].ok /\ IsExactHeader(items[1].val)
                /\ (mode.entry = "stream_auto_palette" =>
                        Len(calls) >= 1 /\ awaited = Len(calls) - 1)
           \/ /\ ~items[1].ok /\ Len(items) = 1
              /\ mode.entry = "stream_auto_palette"
              /\ Len(calls) = 1 /\ awaited = 0
    /\ \A i \in 2..Len(items) :
           items[i].ok => (IsFrameChunk(items[i].val)
                           /\ ~IsHeaderChunk(items[i].val))

\* C2 witness: auto-palette mode yielded the header and then a frame
C2_Witness ==
    /\ mode.entry = "stream_auto_palette" /\ Len(items) >= 2
    /\ items[1].ok /\ items[2].ok /\ Len(calls) = 2

\* C3: a producer call is started only while a consumer request is pending
\* and no earlier call is unresolved; at most one call is in flight; no
\* item is produced without a pending request.
C3_SingleCallOnDemand ==
    [][/\ calls' # calls =>
              /\ polled /\ inflight = 0 /\ result = None
              /\ inflight' = 1 /\ Len(calls') = Len(calls) + 1
       /\ items' # items => polled
       /\ inflight' <= 1]_vars

\* C3 witness: ticks fired and piled up while no request was pending, and
\* no producer call was started for them
C3_Witness ==
    /\ idleTick /\ ~polled /\ ticksReady >= 2 /\ inflight = 0
    /\ Len(calls) = 1 /\ awaited = 1 /\ Len(items) = 2

\* C4: end of stream only after an error item; while producer calls
\* succeed, the clock ticks and the consumer requests, every request is
\* answered with the next chunk; the trailer is never emitted.
C4_UnboundedStream ==
    /\ [](ended => (items # <<>> /\ ~items[Len(items)].ok))
    /\ [](\A i \in 1..Len(items) :
              items[i].ok =>
                  /\ items[i].val # write_trailer(<<>>)
                  /\ IsFrameChunk(items[i].val) =>
                         items[i].val[Len(items[i].val)] = 0)
    /\ \A n \in 0..(MaxItems - 1) :
           (polled /\ Len(items) = n) ~>
               (ended \/ (Len(items) = n + 1
                          /\ (items[n + 1].ok \/ pc = "finished")))

\* C5: an invalid configuration fails by assertion at configuration time,
\* before the stream is polled: no producer call was made and no item was
\* yielded when the assertion fails.
C5_FailsAtConfigurationTime ==
    panicked # "no" =>
        /\ panicked = "config" /\ pc = "aborted"
        /\ calls = <<>> /\ items = <<>> /\ ~polled

Clamp(x, lo, hi) == Max(lo, Min(x, hi))

\* C9: the frame delay is clamp(interval_ms, 10, 65535*10) / 10, lies in
\* 1..65535 (5 ms -> 1, 10_000_000 ms -> 65535), and is the delay written
\* in the control extension of every frame chunk.
C9_FrameDelay ==
    pc # "idle" =>
        /\ self.frame_delay = Clamp(self.interval_ms, 10, 65535 * 10) \div 10
        /\ self.frame_delay \in 1..65535
        /\ self.interval_ms = 5 => self.frame_delay = 1
        /\ self.interval_ms = 10000000 => self.frame_delay = 65535
        /\ \A i \in 1..Len(items) :
               (items[i].ok /\ IsFrameChunk(items[i].val)) =>
                   Le16(items[i].val, 5) = self.frame_delay

\* C9 witness: two frames of a stream whose interval is 10_000_000 ms
C9_Witness ==
    /\ Len(items) = 3 /\ items[2].ok /\ items[3].ok
    /\ self.interval_ms = 10000000
    /\ Le16(items[3].val, 5) = 65535

\* C10: once streaming has begun the configuration and the generator state
\* never change: every producer call receives a clone equal to the
\* configured state, whatever earlier calls did to their clones, and
\* width, height, delay, interlace flag and disposal method are the same,
\* the configured ones, in every frame chunk.
C10_ConfigurationImmutable ==
    /\ [][pc # "config" => self' = self]_vars
    /\ [](\A i \in 1..Len(calls) : calls[i] = self.state)
    /\ [](\A i \in 1..Len(items) :
              (items[i].ok /\ IsFrameChunk(items[i].val)) =>
                  LET b == items[i].val
                  IN  /\ Le16(b, 14) = self.width
                      /\ Le16(b, 16) = self.height
                      /\ Le16(b, 5) = self.frame_delay
                      /\ ((b[18] \div 64) % 2 = 1) = self.interlaced
                      /\ b[4] % 4 = self.dispose /\ b[4] \div 4 = 2)

\* C10 witness: a third producer call is in flight and has changed its
\* clone, after two frames of an interlaced stream
C10_Witness ==
    /\ Len(calls) = 3 /\ inflight = 1 /\ arg # None /\ arg[1] # self.state
    /\ Len(items) = 3 /\ items[3].ok /\ self.interlaced /\ self.state = 1

=============================================================================
